---- MODULE Spec2Model ----
(***************************************************************************)
(* Monte Carlo pi estimation of pdmpmt: seed generation, work splitting,   *)
(* unit-circle sampling, gather, and the orchestrations that drive them    *)
(* (mcpi_async, mcpi_omp, pdmpmt_rng_smcpi_ompm, the Ray main).            *)
(*                                                                         *)
(* Sequences are 1-based: index i of the code is index i + 1 here.         *)
(* Integer widths are scaled down (UintBits for `unsigned`, UlongBits for  *)
(* `unsigned long`, size_t and the 64-bit fast types of an LP64 build).    *)
(* A double is represented by the exact rational it is rounded from, as a  *)
(* fraction <<num, den>> in lowest terms: multiplying a double by 4 is     *)
(* exact, so 4 * (a / b) is the rounding of the rational 4a / b.           *)
(***************************************************************************)
EXTENDS Integers, Sequences, FiniteSets, TLC

\* ------------------------------------------------------------------ bounds
MaxSamples == 4
MaxJobs == 3
MaxRuns == 2
MaxTotal == 9
MaxWorkers == 5
MaxBlock == 2
MaxDraws == 4
UintBits == 10
UlongBits == 20
GridRadius == 2
CurandGrid == 5
MaxOps == 4
MaxDefaultJobs == 3

UintMod == 2 ^ UintBits
UlongMod == 2 ^ UlongBits

\* seeds a caller may pass (the last one does not fit an `unsigned`)
SeedInputs == {0, 5, 8888 % UintMod, UintMod + 5}

\* ------------------------------------------------------- integer conversion
\* conversion to `unsigned` (value modulo 2^w)
ToUnsigned(v) == v % UintMod

\* sums kept in a type of two bits
ToUlong_narrow(v) == v % 4

\* conversion to `unsigned long` / size_t / uint64_t on an LP64 build
ToUlong(v) == v % UlongMod

\* ------------------------------------------------------------- generators
\* generator types: the two std:: engines and the two prand schemes
StdRngs == {"mt19937_64", "mt19937"}
PrandRngs == {"PDMPMT_RNG_MRG32K3A", "PDMPMT_RNG_MT19937"}
CurandRngs == {"CURAND_RNG_PSEUDO_MT19937"}

\* The engines are library code (libstdc++, prand, cuRAND).  Each type is
\* abstracted as a linear congruential generator over its result range, with
\* its own multiplier and increment.

\* the values a std:: engine (and the cuRAND MT19937) draws: mt19937_64 draws
\* 64-bit values, the 32-bit Mersenne Twister 32-bit values
StdRngMod(type) == IF type = "mt19937_64" THEN UlongMod ELSE UintMod

\* the values a prand scheme draws: pdmpmt_rng_type names them MRG32k3a and
\* "32-bit Mersenne Twister", so rng->get, whose return type is uint64_t, gives
\* values of 32 bits
PrandRngMod(type) == UintMod

\* number of distinct outputs of a generator type
RngMod(type) == IF type \in PrandRngs THEN PrandRngMod(type) ELSE StdRngMod(type)

RngMult(type) ==
  CASE type = "mt19937_64" -> 37
    [] type = "mt19937" -> 13
    [] type = "PDMPMT_RNG_MT19937" -> 13
    [] type = "PDMPMT_RNG_MRG32K3A" -> 21
    [] type = "CURAND_RNG_PSEUDO_MT19937" -> 29

RngIncr(type) ==
  CASE type = "mt19937_64" -> 11
    [] type = "mt19937" -> 7
    [] type = "PDMPMT_RNG_MT19937" -> 7
    [] type = "PDMPMT_RNG_MRG32K3A" -> 3
    [] type = "CURAND_RNG_PSEUDO_MT19937" -> 5

\* Rng{seed}, and the generator prand_init(type, seed, ...) gives when it
\* reports no error: a generator seeded with a value
RngSeed(type, seed) == [type |-> type, state |-> seed % RngMod(type)]

\* rng(): the generator after one draw; the value drawn is its new state
RngNext(rng) ==
  [rng EXCEPT !.state = (RngMult(rng.type) * @ + RngIncr(rng.type)) % RngMod(rng.type)]

RngValue(rng) == rng.state

\* draws of the generator one coordinate consumes: generate_canonical needs
\* two 32-bit draws for the 53 bits of a double, one 64-bit draw
DrawsPerDouble(type) == IF type = "mt19937" THEN 2 ELSE 1

\* udist(rng) for udist{-1., 1.} and 2 * get_double_pos(state) - 1: the
\* coordinate drawn, on a grid of step 1 / GridRadius, and the generator after
UDist(rng) ==
  LET r1 == RngNext(rng)
      r2 == RngNext(r1)
      m == RngMod(rng.type)
  IN IF DrawsPerDouble(rng.type) = 2
     THEN [x |-> ((RngValue(r1) + m * RngValue(r2)) * 2 * GridRadius) \div (m * m) - GridRadius,
           rng |-> r2]
     ELSE [x |-> (RngValue(r1) * 2 * GridRadius) \div m - GridRadius,
           rng |-> r1]

\* a test that leaves out the points on the circle itself
InUnitCircle_strict(x, y) == x * x + y * y < GridRadius * GridRadius

\* the unit circle test of one drawn point: x * x + y * y <= 1
InUnitCircle(x, y) == x * x + y * y <= GridRadius * GridRadius

\* one iteration of the sampler loop: draw x, draw y, test, count
SampleStep(rng, n_inside) ==
  LET dx == UDist(rng)
      dy == UDist(dx.rng)
  IN [rng |-> dy.rng,
      n_inside |-> IF InUnitCircle(dx.x, dy.x) THEN n_inside + 1 ELSE n_inside]

\* a loop that runs one iteration too many
SampleLoopCond_inclusive(i, n_samples) == i <= n_samples

\* the condition of the sampler loop: for (i = 0; i < n_samples; i++)
SampleLoopCond(i, n_samples) == i < n_samples

RECURSIVE SampleLoop(_, _, _, _)
SampleLoop(i, n_samples, rng, n_inside) ==
  IF SampleLoopCond(i, n_samples)
  THEN LET s == SampleStep(rng, n_inside)
       IN SampleLoop(i + 1, n_samples, s.rng, s.n_inside)
  ELSE n_inside

\* detail::unit_circle_samples(n_samples, rng): rng is taken by value
unit_circle_samples(n_samples, rng) == SampleLoop(0, n_samples, rng, 0)

\* pdmpmt_rng_unit_circle_samples(n_samples, rng_type, seed) past its assertion
\* and that of make_prand
pdmpmt_rng_unit_circle_samples(n_samples, rng_type, seed) ==
  SampleLoop(0, n_samples, RngSeed(rng_type, ToUnsigned(seed)), 0)

\* the generator after n draws
RECURSIVE RngAdvance(_, _)
RngAdvance(rng, n) == IF n = 0 THEN rng ELSE RngAdvance(RngNext(rng), n - 1)

\* ---------------------------------------------------------- seed generator
RECURSIVE SeedLoop(_, _, _)
SeedLoop(k, rng, seeds) ==
  IF k = 0 THEN seeds
  ELSE LET r == RngNext(rng)
       IN SeedLoop(k - 1, r, Append(seeds, RngValue(r)))

\* every seed drawn from a fresh copy of the generator
generate_seeds_from_copies(n_seeds, rng) ==
  [i \in 1..n_seeds |-> RngValue(RngNext(rng))]

\* detail::generate_seeds(n_seeds, rng): rng is taken by value
generate_seeds(n_seeds, rng) == SeedLoop(n_seeds, rng, <<>>)

\* pdmpmt_rng_generate_seeds(n_seeds, rng_type, seed) past its assertions and
\* that of make_prand; each value is stored as an unsigned long
pdmpmt_rng_generate_seeds(n_seeds, rng_type, seed) ==
  LET s == SeedLoop(n_seeds, RngSeed(rng_type, ToUnsigned(seed)), <<>>)
  IN [i \in 1..Len(s) |-> ToUlong(s[i])]

\* ------------------------------------------------------------ work splitter
\* the remainder handed to the trailing jobs instead of the leading ones
RemainderSlot_trailing(i, n_jobs) == n_jobs - i

\* the index the i-th increment of the remainder loop goes to (code index i)
RemainderSlot(i, n_jobs) == i + 1

\* std::for_each_n(begin, n_rem, n++) and for (i = 0; i < n_rem; i++)
\* counts.data[i]++: the loop that hands out the remainder
RECURSIVE IncrementLoop(_, _, _)
IncrementLoop(i, n_rem, counts) ==
  IF i < n_rem
  THEN IncrementLoop(i + 1, n_rem,
                     [counts EXCEPT ![RemainderSlot(i, Len(counts))] = ToUlong(@ + 1)])
  ELSE counts

\* a split that drops the remainder
generate_sample_counts_no_remainder(n_samples, n_jobs) ==
  [i \in 1..n_jobs |-> n_samples \div n_jobs]

\* detail::generate_sample_counts(n_samples, n_jobs)
generate_sample_counts(n_samples, n_jobs) ==
  LET filled == [i \in 1..n_jobs |-> n_samples \div n_jobs]
      n_rem == n_samples % n_jobs
  IN IncrementLoop(0, n_rem, filled)

\* a split whose last job takes the whole remainder
pdmpmt_generate_sample_counts_rest_to_last(n_samples, n_jobs) ==
  [i \in 1..n_jobs |->
     (n_samples \div n_jobs) + (IF i = n_jobs THEN n_samples % n_jobs ELSE 0)]

\* pdmpmt_generate_sample_counts(n_samples, n_jobs) past its assertions
pdmpmt_generate_sample_counts(n_samples, n_jobs) ==
  LET base_count == ToUlong(n_samples \div n_jobs)
      n_rem == ToUnsigned(n_samples % n_jobs)
      filled == [i \in 1..n_jobs |-> base_count]
  IN IncrementLoop(0, n_rem, filled)

\* --------------------------------------------------------------- gather
RECURSIVE Reduce(_, _)
Reduce(s, acc) ==
  IF s = <<>> THEN acc ELSE Reduce(Tail(s), ToUlong(acc + Head(s)))

RECURSIVE GCD(_, _)
GCD(a, b) == IF b = 0 THEN a ELSE GCD(b, a % b)

\* the double 4 * (a / b), as the fraction it is rounded from
FourTimesRatio(a, b) ==
  IF b = 0 THEN (IF a = 0 THEN <<"nan">> ELSE <<"inf">>)
  ELSE LET g == GCD(4 * a, b) IN <<(4 * a) \div g, b \div g>>

\* a gather that pairs only the first job's counts
mcpi_gather_first_job(circle_counts, sample_counts) ==
  FourTimesRatio(Head(circle_counts), Head(sample_counts))

\* detail::mcpi_gather(circle_counts, sample_counts) past its assertions
mcpi_gather(circle_counts, sample_counts) ==
  LET n_inside == Reduce(circle_counts, 0)
      n_total == Reduce(sample_counts, 0)
  IN FourTimesRatio(n_inside, n_total)

\* pdmpmt_mcpi_gather(circle_counts, sample_counts) past its assertions: one
\* loop over circle_counts.size entries of both blocks
RECURSIVE GatherLoop(_, _, _, _, _)
GatherLoop(i, circle_counts, sample_counts, n_inside, n_total) ==
  IF i > Len(circle_counts) THEN FourTimesRatio(n_inside, n_total)
  ELSE GatherLoop(i + 1, circle_counts, sample_counts,
                  ToUlong(n_inside + circle_counts[i]),
                  ToUlong(n_total + sample_counts[i]))

pdmpmt_mcpi_gather(circle_counts, sample_counts) ==
  GatherLoop(1, circle_counts, sample_counts, 0, 0)

\* ------------------------------------------------------ serial estimators
\* pdmpmt::mcpi(n_samples, rng): 4 * (unit_circle_samples(n_samples, rng) / n_samples)
mcpi(n_samples, rng) == FourTimesRatio(unit_circle_samples(n_samples, rng), n_samples)

\* an estimate computed with the integer quotient of the counts
pdmpmt_rng_smcpi_integer_quotient(n_samples, rng_type, seed) ==
  <<4 * (pdmpmt_rng_unit_circle_samples(n_samples, rng_type, seed) \div n_samples), 1>>

\* pdmpmt_rng_smcpi(n_samples, rng_type, seed) past the sampler's assertions:
\* 4 * uctd / n_samples with uctd the sampler's count as a double
pdmpmt_rng_smcpi(n_samples, rng_type, seed) ==
  FourTimesRatio(pdmpmt_rng_unit_circle_samples(n_samples, rng_type, seed), n_samples)

\* ------------------------------------------------------- call outcomes
\* a call returns a value, stops the process on a failed assertion, or runs
\* into undefined behaviour (after which nothing is known of the run)
Returned(v) == [st |-> "returned", ret |-> v]
AssertFailed(msg) == [st |-> "assert", ret |-> msg]
Undefined(why) == [st |-> "undefined", ret |-> why]

\* ---------------------------------------------------------------- blocks
\* an element of a buffer from malloc that was not written yet
Unwritten == -1

\* values an object that was never assigned may be read as
IndeterminateSizes == 0..MaxBlock

\* a pdmpmt_block_ulong: data is NULL (null) or points to the elements
Block(data, size) == [null |-> FALSE, data |-> data, size |-> size]
NullBlock(size) == [null |-> TRUE, data |-> <<>>, size |-> size]

\* pdmpmt_block_ulong_alloc(size): malloc_ok is whether malloc succeeds,
\* garbage the value the unassigned size member reads as
pdmpmt_block_ulong_alloc(size, malloc_ok, garbage) ==
  IF size = 0 THEN NullBlock(garbage)
  ELSE IF ~malloc_ok THEN NullBlock(garbage)
  ELSE Block([i \in 1..size |-> Unwritten], size)

\* pdmpmt_block_ulong_calloc(size): as pdmpmt_block_ulong_alloc, with calloc
pdmpmt_block_ulong_calloc(size, malloc_ok, garbage) ==
  IF size = 0 THEN NullBlock(garbage)
  ELSE IF ~malloc_ok THEN NullBlock(garbage)
  ELSE Block([i \in 1..size |-> 0], size)

\* pdmpmt_block_ulong_alloc(size) of the block.c that returns right after
\* malloc: the size member of the block is never assigned
pdmpmt_block_ulong_alloc_003(size, malloc_ok, garbage) ==
  IF size = 0 THEN NullBlock(garbage)
  ELSE IF ~malloc_ok THEN NullBlock(garbage)
  ELSE Block([i \in 1..size |-> Unwritten], garbage)

\* pdmpmt_block_ulong_calloc(size) of the same block.c
pdmpmt_block_ulong_calloc_003(size, malloc_ok, garbage) ==
  IF size = 0 THEN NullBlock(garbage)
  ELSE IF ~malloc_ok THEN NullBlock(garbage)
  ELSE Block([i \in 1..size |-> 0], garbage)

\* a block variable and the buffers malloc and calloc gave out: buf is the
\* buffer the data pointer of the variable holds (0 for NULL), released[b] the
\* number of times buffer b went to free()
BlockVar(block, buf, released) == [block |-> block, buf |-> buf, released |-> released]

\* pdmpmt_block_ulong block_{}: data NULL, size 0
EmptyBlockVar == BlockVar(NullBlock(0), 0, <<>>)

\* block_ = pdmpmt_block_ulong_alloc(size): the variable is overwritten with the
\* block returned, which holds a new buffer unless its data is NULL
AssignBlock(m, blk) ==
  IF blk.null THEN BlockVar(blk, 0, m.released)
  ELSE BlockVar(blk, Len(m.released) + 1, Append(m.released, 0))

\* a free that leaves the data pointer as it was
pdmpmt_block_ulong_free_dangling(m) ==
  IF m.block.null THEN m
  ELSE BlockVar(m.block, m.buf, [m.released EXCEPT ![m.buf] = @ + 1])

\* pdmpmt_block_ulong_free(&block): nothing if data is NULL; else the buffer
\* goes to free() and data is set to NULL
pdmpmt_block_ulong_free(m) ==
  IF m.block.null THEN m
  ELSE BlockVar(NullBlock(m.block.size), 0, [m.released EXCEPT ![m.buf] = @ + 1])

\* the blocks pdmpmt_block_ulong_alloc(size) can return
AllocOutcomes(size) ==
  {pdmpmt_block_ulong_alloc(size, ok, g) : ok \in BOOLEAN, g \in IndeterminateSizes}

\* ------------------------------------------------- whole calls, C functions
\* what the pointer of a prand_init that reported an error points to
InvalidRng == [type |-> "invalid", state |-> 0]

RngValid(rng) == rng.type # "invalid"

\* make_prand(type, seed): prand_init reports an error or not (init_ok); the
\* assertion on rng_err is compiled out when nd, and the pointer prand_init
\* gave is then returned unchecked
make_prand(type, seed, nd, init_ok) ==
  IF init_ok THEN Returned(RngSeed(type, seed))
  ELSE IF ~nd THEN AssertFailed("RNG creation must not error")
  ELSE Returned(InvalidRng)

\* pdmpmt_rng_generate_seeds(n_seeds, rng_type, seed) with its assertions
\* (compiled out when nd) on the block its allocation gave; the loop writes
\* through seeds.data and reads through rng
pdmpmt_rng_generate_seeds_call(n_seeds, rng_type, seed, nd, blk, init_ok) ==
  IF ~nd /\ n_seeds = 0 THEN AssertFailed("n_seeds must be positive")
  ELSE IF ~nd /\ blk.null THEN AssertFailed("block memory must be allocated")
  ELSE LET g == make_prand(rng_type, ToUnsigned(seed), nd, init_ok)
       IN IF g.st # "returned" THEN g
          ELSE IF blk.null /\ n_seeds > 0 THEN Undefined("write through NULL")
          ELSE IF ~RngValid(g.ret) /\ n_seeds > 0
          THEN Undefined("read through the pointer of a failed prand_init")
          ELSE LET s == SeedLoop(n_seeds, g.ret, <<>>)
               IN Returned([blk EXCEPT !.data = [i \in 1..Len(s) |-> ToUlong(s[i])]])

\* pdmpmt_generate_sample_counts(n_samples, n_jobs) with its assertions on
\* the block its allocation gave; the block is not tested before it is filled
pdmpmt_generate_sample_counts_call(n_samples, n_jobs, nd, blk) ==
  IF ~nd /\ n_samples = 0 THEN AssertFailed("n_samples must be positive")
  ELSE IF ~nd /\ n_jobs = 0 THEN AssertFailed("n_jobs must be positive")
  ELSE IF n_jobs = 0 THEN Undefined("division by zero")
  ELSE IF blk.null THEN Undefined("write through NULL")
  ELSE Returned([blk EXCEPT !.data = pdmpmt_generate_sample_counts(n_samples, n_jobs)])

\* pdmpmt_rng_unit_circle_samples(n_samples, rng_type, seed) up to the first
\* iteration of its loop: the assertion on n_samples, make_prand, and the
\* first read through rng when there is an iteration
pdmpmt_rng_unit_circle_samples_entry(n_samples, rng_type, seed, nd, init_ok) ==
  IF ~nd /\ n_samples = 0 THEN AssertFailed("n_samples must be positive")
  ELSE LET g == make_prand(rng_type, ToUnsigned(seed), nd, init_ok)
       IN IF g.st = "returned" /\ ~RngValid(g.ret) /\ n_samples > 0
          THEN Undefined("read through the pointer of a failed prand_init")
          ELSE g

\* pdmpmt_rng_unit_circle_samples(n_samples, rng_type, seed) with its
\* assertion on n_samples and that of make_prand
pdmpmt_rng_unit_circle_samples_call(n_samples, rng_type, seed, nd, init_ok) ==
  LET e == pdmpmt_rng_unit_circle_samples_entry(n_samples, rng_type, seed, nd, init_ok)
  IN IF e.st # "returned" THEN e
     ELSE Returned(SampleLoop(0, n_samples, e.ret, 0))

\* detail::generate_sample_counts(n_samples, n_jobs) on any arguments
generate_sample_counts_call(n_samples, n_jobs) ==
  IF n_jobs = 0 THEN Undefined("division by zero")
  ELSE Returned(generate_sample_counts(n_samples, n_jobs))

\* detail::mcpi_gather(circle_counts, sample_counts) of mcpi.hh with its
\* assertions; each sequence is summed on its own
mcpi_gather_call(circle_counts, sample_counts, nd) ==
  IF ~nd /\ (Len(circle_counts) = 0 \/ Len(sample_counts) = 0)
  THEN AssertFailed("std::size(circle_counts) && std::size(sample_counts)")
  ELSE IF ~nd /\ Len(circle_counts) # Len(sample_counts)
  THEN AssertFailed("std::size(circle_counts) == std::size(sample_counts)")
  ELSE Returned(mcpi_gather(circle_counts, sample_counts))

\* detail::mcpi_gather(circle_counts, sample_counts) of cpp/mcpi.h: it asserts
\* equal sizes only
cpp_mcpi_gather_call(circle_counts, sample_counts, nd) ==
  IF ~nd /\ Len(circle_counts) # Len(sample_counts)
  THEN AssertFailed("circle_counts.size() == sample_counts.size()")
  ELSE Returned(mcpi_gather(circle_counts, sample_counts))

\* pdmpmt_mcpi_gather(circle_counts, sample_counts) with its assertions: the
\* loop reads circle_counts.size elements of both blocks
pdmpmt_mcpi_gather_call(circle_counts, sample_counts, nd) ==
  IF ~nd /\ (circle_counts.size = 0 \/ sample_counts.size = 0)
  THEN AssertFailed("circle_counts.size && sample_counts.size")
  ELSE IF ~nd /\ circle_counts.size # sample_counts.size
  THEN AssertFailed("circle_counts.size == sample_counts.size")
  ELSE IF circle_counts.size > Len(circle_counts.data)
          \/ circle_counts.size > Len(sample_counts.data)
  THEN Undefined("read past the end of a block")
  ELSE Returned(pdmpmt_mcpi_gather(SubSeq(circle_counts.data, 1, circle_counts.size),
                                   sample_counts.data))

\* the position of the calling thread after a call
After(r, next) ==
  CASE r.st = "returned" -> next
    [] r.st = "assert" -> "aborted"
    [] r.st = "undefined" -> "undefined"

Fault(r) == IF r.st = "returned" THEN "none" ELSE r.ret

\* -------------------------------------- default job count, cpp/mcpi.h
\* detail::job_elements_default: the number of elements a job is responsible
\* for at most
job_elements_default == 50000000

\* detail::generate_sample_counts(n_samples, n_jobs) of cpp/mcpi.h on any
\* arguments; the counts used here are far below the range of N_t, so its
\* arithmetic is exact
RECURSIVE CppIncrementLoop(_, _, _)
CppIncrementLoop(i, n_rem, counts) ==
  IF i < n_rem
  THEN CppIncrementLoop(i + 1, n_rem,
                        [counts EXCEPT ![RemainderSlot(i, Len(counts))] = @ + 1])
  ELSE counts

cpp_generate_sample_counts_call(n_samples, n_jobs) ==
  IF n_jobs = 0 THEN Undefined("division by zero")
  ELSE Returned(CppIncrementLoop(0, n_samples % n_jobs,
                                 [i \in 1..n_jobs |-> n_samples \div n_jobs]))

\* a default job count that rounds down
DefaultJobs_floor(n_samples) == n_samples \div job_elements_default

\* mcpi_async(n_samples, seed) of cpp/mcpi.h: the job count it chooses
DefaultJobs(n_samples) ==
  LET n_jobs == n_samples \div job_elements_default
  IN IF n_samples % job_elements_default # 0 THEN n_jobs + 1 ELSE n_jobs

\* ------------------------------------------------- parameter passing
\* a generator handed over by reference: the caller sees the callee's draws
PassByReference(caller_rng, callee_rng) == callee_rng

\* a generator handed to a callee that declares it `Rng rng`: the callee works
\* on its own copy, the caller's object keeps its state
PassByValue(caller_rng, callee_rng) == caller_rng

\* ------------------------------------------------------- orchestrations
VARIABLES
  orch,           \* entry point that is running
  n_samples,      \* argument: total number of samples
  n_jobs,         \* parameter n_jobs / n_threads / n_tasks of the entry point
  jobs_arg,       \* the value the caller passed for it
  hw,             \* what std::thread::hardware_concurrency() returns here
  seed,           \* argument: seed value
  rng_type,       \* generator type of the samplers
  ndebug,         \* TRUE when assertions are compiled out (Release build)
  fp_contract,    \* how the build evaluates the float sum of the kernel's test
  caller_rng,     \* the caller-owned generator object (C++ entry points)
  pc,             \* position of the calling thread
  k,              \* loop index of the calling thread (launch, collect)
  seeds,          \* SeedSet
  sample_counts,  \* Partition
  worker,         \* per job: the sampler invocation and its loop position
  gens,           \* generator objects owned by sampler invocations
  futures,        \* per job: shared state of the future / object reference
  circle_counts,  \* per job: collected result slot
  pi_hat,         \* value returned by the entry point
  run,            \* number of the call being made with these arguments
  prev,           \* seeds and estimate of the previous call
  hist,           \* bookkeeping: calls made, slots written, generators used
  call,           \* a direct call of one core function: arguments and result
  dev,            \* device memory of the cuRAND program: xs, ys, cts
  mem             \* a block variable, the buffers allocated and the last call on it

vars == <<orch, n_samples, n_jobs, seed, rng_type, ndebug, fp_contract, caller_rng, pc, k,
          seeds, sample_counts, worker, gens, futures, circle_counts, pi_hat,
          run, prev, hist, call, jobs_arg, hw, dev, mem>>

args == <<orch, n_samples, n_jobs, jobs_arg, hw, seed, rng_type, ndebug, fp_contract>>

Jobs == 1..MaxJobs

FutureOrchs == {"mcpi_async", "mcpi_async_auto", "ray_main"}
OmpOrchs == {"mcpi_omp", "pdmpmt_rng_smcpi_ompm"}
ParallelOrchs == FutureOrchs \cup OmpOrchs
SerialOrchs == {"mcpi", "pdmpmt_rng_smcpi"}
\* mcpi_async called without a job count: it asks the hardware for one and
\* calls mcpi_async with it
AutoOrchs == {"mcpi_async_auto"}
\* the cuRAND program
GpuOrchs == {"curand_main"}
\* the entry points written in C
COrchs == {"pdmpmt_rng_smcpi_ompm", "pdmpmt_rng_smcpi"}
DirectCalls == {"direct"}
\* the fixture of the block tests: one block variable, allocated and freed
BlockOrchs == {"UlongBlockTest"}
Orchs == ParallelOrchs \cup SerialOrchs \cup GpuOrchs \cup DirectCalls \cup BlockOrchs

NoRng == [type |-> "none", state |-> 0]
NoEstimate == <<"none">>
IdleWorker == [st |-> "idle", n |-> 0, seed |-> 0, gen |-> 0, slot |-> 0,
               i |-> 0, n_inside |-> 0]
NoFuture == [ready |-> FALSE, value |-> 0]
NoHist == [gen_seeds |-> <<>>, gen_counts |-> <<>>, gather |-> 0,
           invoked |-> [j \in Jobs |-> <<>>],
           writers |-> [j \in Jobs |-> {}],
           users |-> [j \in Jobs |-> {}],
           collected |-> {},
           gather_read_unwritten |-> FALSE,
           null_counts |-> FALSE,
           fault |-> "none"]
NoCall == [fn |-> "none"]
NoDev == [xs |-> <<>>, ys |-> <<>>, cts |-> <<>>, done |-> {}, read |-> <<>>]
NoMem == [var |-> EmptyBlockVar, last |-> "none", ops |-> 0]

\* generator types each entry point is used with
RngTypesOf(o) ==
  CASE o \in COrchs -> PrandRngs
    [] o = "ray_main" -> {"mt19937"}
    [] o = "direct" -> {"mt19937_64"}
    [] o = "UlongBlockTest" -> {"mt19937_64"}
    [] o = "mcpi_async_auto" -> {"mt19937_64"}
    [] o = "curand_main" -> {"CURAND_RNG_PSEUDO_MT19937"}
    [] OTHER -> StdRngs

\* the generator object the caller of a C++ entry point owns
CallerRngOf(o, type, s) ==
  IF o \in {"mcpi_async", "mcpi_async_auto", "mcpi_omp", "mcpi"}
  THEN RngSeed(type, s) ELSE NoRng

\* how the build evaluates the sum xs[i] * xs[i] + ys[i] * ys[i] of the
\* kernel's test in float: each product rounded before the sum ("off"), or
\* one product kept exact inside a fused multiply-add ("fma_xx":
\* fmaf(x, x, y * y), "fma_yy": fmaf(y, y, x * x)), which device code is
\* compiled to unless contraction is turned off
FpContracts == {"off", "fma_xx", "fma_yy"}

\* whether prand_init succeeds, where an entry point creates its generators
\* with make_prand; Rng{seed} of the C++ entry points reports no error
PrandInitOutcomes(o) == IF o \in COrchs THEN BOOLEAN ELSE {TRUE}

\* std::thread::hardware_concurrency(): the number of hardware threads, or 0
\* when it is not computable
HardwareConcurrency == 0..MaxJobs

\* programs whose sample and job counts are positive constants of their main
ConstantArgOrchs == {"ray_main", "curand_main"}

\* entry points and calls with assertions, which a build with NDEBUG drops
AssertOrchs == {"mcpi_async", "mcpi_async_auto", "mcpi_omp", "direct"} \cup COrchs

Fresh ==
  /\ pc = "start"
  /\ k = 0
  /\ seeds = <<>>
  /\ sample_counts = <<>>
  /\ worker = [j \in Jobs |-> IdleWorker]
  /\ gens = [j \in Jobs |-> NoRng]
  /\ futures = [j \in Jobs |-> NoFuture]
  /\ circle_counts = <<>>
  /\ pi_hat = NoEstimate
  /\ hist = NoHist

Init ==
  /\ orch \in Orchs
  /\ n_samples \in (CASE orch \in DirectCalls \cup BlockOrchs -> {1}
                      [] orch \in ConstantArgOrchs -> 1..MaxSamples
                      [] OTHER -> 0..MaxSamples)
  /\ n_jobs \in (CASE orch \in ConstantArgOrchs -> 1..MaxJobs
                   [] orch \in AutoOrchs -> {0}
                   [] orch \in ParallelOrchs -> 0..MaxJobs
                   [] OTHER -> {1})
  /\ jobs_arg = n_jobs
  /\ hw \in (IF orch \in AutoOrchs THEN HardwareConcurrency ELSE {0})
  /\ seed \in (IF orch \in DirectCalls \cup BlockOrchs THEN {0} ELSE SeedInputs)
  /\ rng_type \in RngTypesOf(orch)
  /\ ndebug \in (IF orch \in AssertOrchs THEN BOOLEAN ELSE {FALSE})
  /\ fp_contract \in (IF orch \in GpuOrchs THEN FpContracts ELSE {"off"})
  /\ dev = NoDev
  /\ mem = NoMem
  /\ caller_rng = CallerRngOf(orch, rng_type, seed)
  /\ run = 1
  /\ prev = [seeds |-> <<>>, pi_hat |-> NoEstimate]
  /\ call = NoCall
  /\ Fresh

\* positions at which the process has stopped: a failed assertion aborted it,
\* its behaviour became undefined, it called std::exit(EXIT_FAILURE), or an
\* exception left main
Stopped == {"aborted", "undefined", "exited", "terminated"}

\* one generator object shared by all jobs
GenOf_shared(j) == 1

\* worker j owns generator object j and result slot j
GenOf(j) == j
SlotOf(j) == j

\* the seed and count handed to sampler j: Partition[j], SeedSet[j]
JobCount(counts, j) == counts[j]

\* every job seeded with the first seed
JobSeed_first(sds, j) == sds[1]

JobSeed(sds, j) == sds[j]

\* the seed as the sampler's parameter receives it
SeedParam(o, s) ==
  IF o = "pdmpmt_rng_smcpi_ompm" THEN ToUnsigned(s) ELSE ToUlong(s)

\* the sampler invocation of job j: its arguments, generator and loop state
Invocation(o, type, counts, sds, j) ==
  [st |-> "running", n |-> JobCount(counts, j),
   seed |-> SeedParam(o, JobSeed(sds, j)),
   gen |-> GenOf(j), slot |-> SlotOf(j), i |-> 0, n_inside |-> 0]

LogInvocation(h, j, w) ==
  [h EXCEPT !.invoked[j] = Append(@, <<w.n, w.seed>>)]

\* omp_get_num_threads() in the calling thread, outside a parallel region:
\* the team is the calling thread alone
omp_get_num_threads == 1

\* the job count an entry point goes on with when it is called with n on
\* hardware that reports h threads: mcpi_omp replaces 0, mcpi_async without a
\* job count takes the hardware's (1 if that is 0), the others keep n
JobsUsed(o, n, h) ==
  CASE o = "mcpi_omp" /\ n = 0 -> omp_get_num_threads
    [] o = "mcpi_async_auto" -> (IF h = 0 THEN 1 ELSE h)
    [] OTHER -> n

\* step (b) of every parallel entry point: the Seed Generator
GenerateSeeds ==
  /\ pc = "start"
  /\ orch \in ParallelOrchs
  /\ LET nj == JobsUsed(orch, n_jobs, hw)
         sgen == IF orch = "ray_main" THEN RngSeed("mt19937_64", seed) ELSE caller_rng
     IN /\ n_jobs' = nj
        /\ caller_rng' = (IF orch \in {"mcpi_async", "mcpi_async_auto", "mcpi_omp"}
                          THEN PassByValue(caller_rng, RngAdvance(sgen, nj))
                          ELSE caller_rng)
        /\ IF orch = "pdmpmt_rng_smcpi_ompm"
           THEN \E blk \in AllocOutcomes(nj), init_ok \in PrandInitOutcomes(orch) :
                  LET r == pdmpmt_rng_generate_seeds_call(nj, rng_type, seed, ndebug, blk,
                                                          init_ok)
                  IN /\ seeds' = (IF r.st = "returned" THEN r.ret.data ELSE seeds)
                     /\ pc' = After(r, "split")
                     /\ hist' = [hist EXCEPT !.gen_seeds = Append(@, nj),
                                             !.fault = Fault(r)]
           ELSE /\ seeds' = generate_seeds(nj, sgen)
                /\ pc' = "split"
                /\ hist' = [hist EXCEPT !.gen_seeds = Append(@, nj)]
  /\ UNCHANGED <<mem, call, dev, orch, n_samples, jobs_arg, hw, seed, rng_type, ndebug,
                 fp_contract, k,
                 sample_counts, worker, gens, futures, circle_counts, pi_hat, run,
                 prev>>

\* step (a) of every parallel entry point: the Work Splitter
GenerateSampleCounts ==
  /\ pc = "split"
  /\ \E blk \in AllocOutcomes(n_jobs) :
       LET r == IF orch = "pdmpmt_rng_smcpi_ompm"
                THEN pdmpmt_generate_sample_counts_call(n_samples, n_jobs, ndebug, blk)
                ELSE generate_sample_counts_call(n_samples, n_jobs)
       IN /\ sample_counts' = (CASE r.st # "returned" -> sample_counts
                                 [] orch = "pdmpmt_rng_smcpi_ompm" -> r.ret.data
                                 [] OTHER -> r.ret)
          /\ pc' = After(r, IF orch \in FutureOrchs THEN "launch" ELSE "fork")
          /\ hist' = [hist EXCEPT !.gen_counts = Append(@, n_jobs),
                                  !.fault = Fault(r)]
  /\ UNCHANGED <<mem, call, dev, args, caller_rng, k, seeds, worker, gens, futures,
                 circle_counts, pi_hat, run, prev>>

\* a result vector of the C++ code is value-initialised, a block of the C code
\* comes from pdmpmt_block_ulong_alloc with its elements not yet written
NewCircleCounts(o, n) ==
  [j \in 1..n |-> IF o = "pdmpmt_rng_smcpi_ompm" THEN Unwritten ELSE 0]

\* mcpi_async / ray main: one iteration of the loop that submits the tasks
Launch ==
  /\ pc = "launch"
  /\ k < n_jobs
  /\ LET j == k + 1
         w == Invocation(orch, rng_type, sample_counts, seeds, j)
     IN /\ worker' = [worker EXCEPT ![j] = w]
        /\ gens' = [gens EXCEPT ![w.gen] = RngSeed(rng_type, w.seed)]
        /\ hist' = LogInvocation(hist, j, w)
  /\ k' = k + 1
  /\ UNCHANGED <<mem, call, dev, args, caller_rng, pc, seeds, sample_counts, futures,
                 circle_counts, pi_hat, run, prev>>

\* mcpi_async / ray main: all tasks submitted, the result vector is created
LaunchDone ==
  /\ pc = "launch"
  /\ k = n_jobs
  /\ circle_counts' = NewCircleCounts(orch, n_jobs)
  /\ k' = 0
  /\ pc' = "collect"
  /\ UNCHANGED <<mem, call, dev, args, caller_rng, seeds, sample_counts, worker, gens,
                 futures, pi_hat, run, prev, hist>>

\* mcpi_omp / pdmpmt_rng_smcpi_ompm: the result vector is created and the
\* parallel region entered
OmpFork ==
  /\ pc = "fork"
  /\ IF orch = "pdmpmt_rng_smcpi_ompm"
     THEN \E blk \in AllocOutcomes(n_jobs) :
            /\ circle_counts' = blk.data
            /\ hist' = [hist EXCEPT !.null_counts = blk.null]
     ELSE /\ circle_counts' = NewCircleCounts(orch, n_jobs)
          /\ UNCHANGED hist
  /\ pc' = "parallel"
  /\ UNCHANGED <<mem, call, dev, args, caller_rng, k, seeds, sample_counts, worker, gens,
                 futures, pi_hat, run, prev>>

\* the iterations the parallel for loop hands out: 0 .. n_threads - 1
OmpIterations(n) == 1..n

\* the generator of a sampler invocation: Rng{seed} in the C++ samplers' callers,
\* make_prand behind the assertion on the count in the C sampler
SamplerRng(o, type, w, nd, init_ok) ==
  IF o \in COrchs
  THEN pdmpmt_rng_unit_circle_samples_entry(w.n, type, w.seed, nd, init_ok)
  ELSE Returned(RngSeed(type, w.seed))

\* mcpi_omp / pdmpmt_rng_smcpi_ompm: a thread of the team takes iteration j
\* and enters the sampler; the C sampler asserts that its count is positive
\* and creates its generator with make_prand
OmpStartIter(j) ==
  /\ pc = "parallel"
  /\ j \in OmpIterations(n_jobs)
  /\ worker[j].st = "idle"
  /\ \E init_ok \in PrandInitOutcomes(orch) :
       LET w == Invocation(orch, rng_type, sample_counts, seeds, j)
           r == SamplerRng(orch, rng_type, w, ndebug, init_ok)
       IN /\ hist' = [LogInvocation(hist, j, w) EXCEPT
                         !.fault = IF r.st = "returned" THEN @ ELSE Fault(r)]
          /\ IF r.st # "returned"
             THEN /\ pc' = After(r, pc)
                  /\ UNCHANGED <<worker, gens>>
             ELSE /\ worker' = [worker EXCEPT ![j] = w]
                  /\ gens' = [gens EXCEPT ![w.gen] = r.ret]
                  /\ pc' = pc
  /\ UNCHANGED <<mem, call, dev, args, caller_rng, k, seeds, sample_counts, futures,
                 circle_counts, pi_hat, run, prev>>

\* one iteration of the sampler loop of job j
WorkerStep(j) ==
  /\ pc \notin Stopped
  /\ worker[j].st = "running"
  /\ SampleLoopCond(worker[j].i, worker[j].n)
  /\ LET w == worker[j]
         s == SampleStep(gens[w.gen], w.n_inside)
     IN /\ gens' = [gens EXCEPT ![w.gen] = s.rng]
        /\ worker' = [worker EXCEPT ![j].i = @ + 1, ![j].n_inside = s.n_inside]
        /\ hist' = [hist EXCEPT !.users[w.gen] = @ \cup {j}]
  /\ UNCHANGED <<mem, call, dev, args, caller_rng, pc, k, seeds, sample_counts, futures,
                 circle_counts, pi_hat, run, prev>>

\* the sampler of job j returns: the future becomes ready (mcpi_async, ray
\* main) or the result slot is assigned (mcpi_omp, pdmpmt_rng_smcpi_ompm)
WorkerReturn(j) ==
  /\ pc \notin Stopped
  /\ orch \in ParallelOrchs
  /\ worker[j].st = "running"
  /\ ~SampleLoopCond(worker[j].i, worker[j].n)
  /\ LET w == worker[j]
     IN /\ worker' = [worker EXCEPT ![j].st = "done"]
        /\ CASE orch \in FutureOrchs ->
                /\ futures' = [futures EXCEPT ![w.slot] = [ready |-> TRUE, value |-> w.n_inside]]
                /\ hist' = [hist EXCEPT !.writers[w.slot] = @ \cup {j}]
                /\ UNCHANGED <<circle_counts, pc>>
             [] orch \in OmpOrchs /\ hist.null_counts ->
                \* circle_counts.data[i] = ... with data NULL
                /\ hist' = [hist EXCEPT !.fault = "write through NULL"]
                /\ pc' = "undefined"
                /\ UNCHANGED <<circle_counts, futures>>
             [] OTHER ->
                /\ circle_counts' = [circle_counts EXCEPT ![w.slot] = ToUlong(w.n_inside)]
                /\ hist' = [hist EXCEPT !.writers[w.slot] = @ \cup {j},
                                        !.collected = @ \cup {w.slot}]
                /\ UNCHANGED <<futures, pc>>
  /\ UNCHANGED <<mem, call, dev, args, caller_rng, k, seeds, sample_counts, gens, pi_hat,
                 run, prev>>

\* a get that does not wait for the task
FutureReady_no_wait(f) == TRUE

\* x.get() / refs[i].Get() blocks until the result of the task is there
FutureReady(f) == f.ready

\* mcpi_async / ray main: one step of the loop that takes the results
Collect ==
  /\ pc = "collect"
  /\ k < n_jobs
  /\ FutureReady(futures[k + 1])
  /\ circle_counts' = [circle_counts EXCEPT ![k + 1] = futures[k + 1].value]
  /\ k' = k + 1
  /\ pc' = (IF k + 1 = n_jobs THEN "gather" ELSE "collect")
  /\ hist' = [hist EXCEPT !.collected = @ \cup {k + 1}]
  /\ UNCHANGED <<mem, call, dev, args, caller_rng, seeds, sample_counts, worker, gens,
                 futures, pi_hat, run, prev>>

\* a parallel for loop without its barrier (nowait)
OmpBarrier_nowait(n) == TRUE

\* the implicit barrier that ends the parallel for loop
OmpBarrier(n) == \A j \in 1..n : worker[j].st = "done"

\* mcpi_omp / pdmpmt_rng_smcpi_ompm: the parallel region ends
OmpJoin ==
  /\ pc = "parallel"
  /\ OmpBarrier(n_jobs)
  /\ pc' = "gather"
  /\ UNCHANGED <<mem, call, dev, args, caller_rng, k, seeds, sample_counts, worker, gens,
                 futures, circle_counts, pi_hat, run, prev, hist>>

\* result slots a thread has assigned: by the sampler's thread in the OpenMP
\* entry points, by the calling thread from a ready future otherwise
Assigned(j) == j \in hist.collected

\* the values a read of the result block can give: an element that was never
\* written has an indeterminate value
ReadCounts(o, cc) ==
  {r \in [1..Len(cc) -> 0..MaxSamples] :
     \A j \in 1..Len(cc) : cc[j] # Unwritten => r[j] = cc[j]}

\* step (d) of every parallel entry point: Gather/Estimate
Gather ==
  /\ pc = "gather"
  /\ \E cc \in ReadCounts(orch, circle_counts) :
       pi_hat' = (IF orch = "pdmpmt_rng_smcpi_ompm"
                  THEN pdmpmt_mcpi_gather(cc, sample_counts)
                  ELSE mcpi_gather(cc, sample_counts))
  /\ hist' = [hist EXCEPT !.gather = @ + 1,
                          !.gather_read_unwritten = \E j \in 1..n_jobs : ~Assigned(j)]
  /\ pc' = "done"
  /\ UNCHANGED <<mem, call, dev, args, caller_rng, k, seeds, sample_counts, worker, gens,
                 futures, circle_counts, run, prev>>

\* pdmpmt::mcpi(n_samples, rng): the sampler is called in the calling thread
\* with a copy of the caller's generator
\* pdmpmt_rng_smcpi(n_samples, rng_type, seed): the C sampler is called in the
\* calling thread; it takes its seed as an unsigned, asserts n_samples and
\* creates its generator with make_prand
SerialCall ==
  /\ pc = "start"
  /\ orch \in SerialOrchs
  /\ \E init_ok \in PrandInitOutcomes(orch) :
       LET w == [st |-> "running", n |-> n_samples,
                 seed |-> IF orch \in COrchs THEN ToUnsigned(seed) ELSE 0,
                 gen |-> GenOf(1), slot |-> SlotOf(1), i |-> 0, n_inside |-> 0]
           r == IF orch \in COrchs
                THEN SamplerRng(orch, rng_type, w, ndebug, init_ok)
                ELSE Returned(caller_rng)
       IN /\ worker' = (IF r.st = "returned" THEN [worker EXCEPT ![1] = w] ELSE worker)
          /\ gens' = (IF r.st = "returned" THEN [gens EXCEPT ![GenOf(1)] = r.ret]
                      ELSE gens)
          /\ pc' = After(r, "serial")
          /\ hist' = [LogInvocation(hist, 1, w) EXCEPT !.fault = Fault(r)]
  /\ UNCHANGED <<mem, call, dev, args, caller_rng, k, seeds, sample_counts, futures,
                 circle_counts, pi_hat, run, prev>>

\* pdmpmt::mcpi: 4 * (uctd / n_samples); pdmpmt_rng_smcpi: 4 * uctd / n_samples
SerialReturn ==
  /\ pc = "serial"
  /\ worker[1].st = "running"
  /\ ~SampleLoopCond(worker[1].i, worker[1].n)
  /\ worker' = [worker EXCEPT ![1].st = "done"]
  /\ pi_hat' = FourTimesRatio(worker[1].n_inside, n_samples)
  /\ caller_rng' = PassByValue(caller_rng, gens[worker[1].gen])
  /\ pc' = "done"
  /\ UNCHANGED <<mem, call, dev, args, k, seeds, sample_counts, gens, futures, circle_counts,
                 run, prev, hist, call>>

\* the caller makes the same call again, with the same generator object
CallAgain ==
  /\ pc = "done"
  /\ orch \notin GpuOrchs
  /\ run < MaxRuns
  /\ run' = run + 1
  /\ prev' = [seeds |-> seeds, pi_hat |-> pi_hat]
  /\ pc' = "start"
  /\ k' = 0
  /\ seeds' = <<>>
  /\ sample_counts' = <<>>
  /\ worker' = [j \in Jobs |-> IdleWorker]
  /\ gens' = [j \in Jobs |-> NoRng]
  /\ futures' = [j \in Jobs |-> NoFuture]
  /\ circle_counts' = <<>>
  /\ pi_hat' = NoEstimate
  /\ hist' = NoHist
  /\ n_jobs' = jobs_arg
  /\ UNCHANGED <<mem, call, dev, orch, n_samples, jobs_arg, hw, seed, rng_type, ndebug,
                 fp_contract, caller_rng>>

\* ------------------------------------------------------ the cuRAND program
\* curandGenerateUniform(gen, out, n): n floats in (0, 1], here v / CurandGrid
\* for v in 1..CurandGrid, and the generator after them
RECURSIVE curandGenerateUniform(_, _, _)
curandGenerateUniform(gen, n, out) ==
  IF n = 0 THEN [out |-> out, gen |-> gen]
  ELSE LET r == RngNext(gen)
       IN curandGenerateUniform(r, n - 1,
            Append(out, (RngValue(r) * CurandGrid) \div RngMod(r.type) + 1))

\* work units with the remainder handed to the leading threads, one sample each
WorkSize_leading(ns, nt, ti) == (ns \div nt) + (IF ti < ns % nt THEN 1 ELSE 0)

\* unit_circle_check: the number of samples thread ti works on; the last
\* thread takes the remainder
WorkSize(ns, nt, ti) == (ns \div nt) + (IF ti = nt - 1 THEN ns % nt ELSE 0)

\* every thread starting at the first sample
Offset_zero(ns, nt, ti) == 0

\* unit_circle_check: the index of the first sample of thread ti
Offset(ns, nt, ti) == (ns \div nt) * ti

\* the float sum xs[i] * xs[i] + ys[i] * ys[i] against 1 (-1 below, 0 equal,
\* 1 above) for the floats nearest x / CurandGrid and y / CurandGrid.  Off the
\* circle the sum is further from 1 than any rounding moves it.  The grid
\* points on the circle are those of 3/5 and 4/5, which are not floats: the
\* sum of the two rounded products of 0.600000024f and 0.800000012f is exactly
\* 1, and so is the fused sum that keeps the product of the larger coordinate
\* exact; the fused sum that keeps the product of the smaller one exact is
\* the next float above 1.
RoundedSumCompare(x, y, contract) ==
  CASE x * x + y * y < CurandGrid * CurandGrid -> -1
    [] x * x + y * y > CurandGrid * CurandGrid -> 1
    [] OTHER -> IF \/ contract = "fma_xx" /\ x < y
                   \/ contract = "fma_yy" /\ y < x
                THEN 1 ELSE 0

\* unit_circle_check: xs[i] * xs[i] + ys[i] * ys[i] <= 1
InQuarterCircle(x, y, contract) == RoundedSumCompare(x, y, contract) <= 0

\* unit_circle_check: the loop of thread ti, from code index i to the end of
\* its work unit
RECURSIVE CheckLoop(_, _, _, _, _, _)
CheckLoop(i, end, xs, ys, n_in, contract) ==
  IF i < end
  THEN CheckLoop(i + 1, end, xs, ys,
                 ToUnsigned(n_in + (IF InQuarterCircle(xs[i + 1], ys[i + 1], contract)
                                    THEN 1 ELSE 0)),
                 contract)
  ELSE n_in

\* unit_circle_check: the code indices i the loop of thread ti goes through,
\* for (i = offset; i < offset + work_size; i++)
LoopIndices(ns, nt, ti) ==
  Offset(ns, nt, ti)..(Offset(ns, nt, ti) + WorkSize(ns, nt, ti) - 1)

\* unit_circle_check(xs, ys, cts) in thread ti: the value it stores in cts[ti]
unit_circle_check(xs, ys, nt, ti, contract) ==
  LET ns == Len(xs)
      offset == Offset(ns, nt, ti)
  IN CheckLoop(offset, offset + WorkSize(ns, nt, ti), xs, ys, 0, contract)

\* the cuRAND calls of main up to the kernel launch, in program order; each
\* status goes to curand_check
CurandCalls ==
  <<"curandCreateGenerator", "curandSetPseudoRandomGeneratorSeed",
    "curandSetGeneratorOrdering", "curandGenerateUniform(xs)",
    "curandGenerateUniform(ys)">>

\* which of them is the first to return a status other than
\* CURAND_STATUS_SUCCESS: none (0) or the one of that position
CurandFailures == 0..Len(CurandCalls)

\* curand_check << status: returns on CURAND_STATUS_SUCCESS, else prints the
\* error and calls std::exit(EXIT_FAILURE)
curand_check(failed, next) == IF failed = 0 THEN next ELSE "exited"

\* PDMPMT_CUDA_THROW_IF_ERROR(): throws pdmpmt::cuda_runtime_exception when
\* cudaGetLastError() is not cudaSuccess; nothing in main catches it
CudaThrowIfError(cuda_ok, next) == IF cuda_ok THEN next ELSE "terminated"

\* main: the generator is created and seeded, xs then ys are filled, cts is a
\* vector of n_threads zeros; a cuRAND call that fails ends the program, and so
\* does a CUDA error seen after the synchronize
CurandGenerate ==
  /\ orch \in GpuOrchs
  /\ pc = "start"
  /\ \E failed \in CurandFailures, cuda_ok \in BOOLEAN :
       LET gx == curandGenerateUniform(RngSeed(rng_type, ToUnsigned(seed)), n_samples, <<>>)
           gy == curandGenerateUniform(gx.gen, n_samples, <<>>)
           at == curand_check(failed, CudaThrowIfError(cuda_ok, "kernel"))
       IN /\ pc' = at
          /\ dev' = (IF at = "kernel"
                     THEN [xs |-> gx.out, ys |-> gy.out, cts |-> [t \in 1..n_jobs |-> 0],
                           done |-> {}, read |-> [t \in 1..n_jobs |-> {}]]
                     ELSE dev)
          /\ hist' = [hist EXCEPT !.fault =
                        CASE at = "exited" -> "cuRAND error"
                          [] at = "terminated" -> "cuda_runtime_exception"
                          [] OTHER -> @]
  /\ UNCHANGED <<mem, call, args, caller_rng, k, seeds, sample_counts, worker, gens,
                 futures, circle_counts, pi_hat, run, prev>>

\* the threads of the launch: n_blocks * n_block_threads of them
KernelThreads(nt) == 0..(nt - 1)

\* one thread of the kernel runs
KernelThread(ti) ==
  /\ orch \in GpuOrchs
  /\ pc = "kernel"
  /\ ti \in KernelThreads(n_jobs) \ dev.done
  /\ dev' = [dev EXCEPT !.cts[ti + 1] = unit_circle_check(dev.xs, dev.ys, n_jobs, ti,
                                                          fp_contract),
                        !.done = @ \cup {ti},
                        !.read[ti + 1] = LoopIndices(Len(dev.xs), n_jobs, ti)]
  /\ UNCHANGED <<mem, call, args, caller_rng, pc, k, seeds, sample_counts, worker, gens,
                 futures, circle_counts, pi_hat, run, prev, hist>>

\* cudaDeviceSynchronize() returns when every thread of the kernel has run,
\* or when the launch or the kernel failed; PDMPMT_CUDA_THROW_IF_ERROR() then
\* throws
KernelSync ==
  /\ orch \in GpuOrchs
  /\ pc = "kernel"
  /\ \E cuda_ok \in BOOLEAN :
       /\ cuda_ok => dev.done = KernelThreads(n_jobs)
       /\ pc' = CudaThrowIfError(cuda_ok, "reduce")
       /\ hist' = [hist EXCEPT !.fault = IF cuda_ok THEN @ ELSE "cuda_runtime_exception"]
  /\ UNCHANGED <<mem, call, dev, args, caller_rng, k, seeds, sample_counts, worker, gens,
                 futures, circle_counts, pi_hat, run, prev>>

\* thrust::reduce(cts.begin(), cts.end(), 0u) in unsigned arithmetic
RECURSIVE ReduceUnsigned(_, _)
ReduceUnsigned(s, acc) ==
  IF s = <<>> THEN acc ELSE ReduceUnsigned(Tail(s), ToUnsigned(acc + Head(s)))

\* main: pi = (4. * n_in) / n_samples
CurandReduce ==
  /\ orch \in GpuOrchs
  /\ pc = "reduce"
  /\ pi_hat' = FourTimesRatio(ReduceUnsigned(dev.cts, 0), n_samples)
  /\ pc' = "done"
  /\ UNCHANGED <<mem, call, dev, args, caller_rng, k, seeds, sample_counts, worker, gens,
                 futures, circle_counts, run, prev, hist>>

\* --------------------------------------- direct calls of the core functions
\* counts handed to gather directly, with the values of the documented example
GatherValues == {0, 1, 2, 3, 7850, 7854, 10000}

Blocks == UNION {[1..n -> GatherValues] : n \in 1..MaxBlock}

\* generator states a caller can hold: seeded, then advanced a few draws
CallerRngs ==
  {RngAdvance(RngSeed(t, s), d) : t \in StdRngs, s \in SeedInputs, d \in 0..2}

Idle == UNCHANGED <<mem, dev, args, caller_rng, pc, k, seeds, sample_counts, worker, gens,
                    futures, circle_counts, pi_hat, run, prev, hist>>

CallGenerateSampleCounts ==
  /\ orch \in DirectCalls
  /\ pc = "start"
  /\ call = NoCall
  /\ \E total \in 1..MaxTotal, workers \in 1..MaxWorkers :
       call' = [fn |-> "generate_sample_counts", total |-> total, workers |-> workers,
                ret |-> generate_sample_counts(total, workers)]
  /\ Idle

CallPdmpmtGenerateSampleCounts ==
  /\ orch \in DirectCalls
  /\ pc = "start"
  /\ call = NoCall
  /\ \E total \in 1..MaxTotal, workers \in 1..MaxWorkers :
       call' = [fn |-> "pdmpmt_generate_sample_counts", total |-> total,
                workers |-> workers,
                ret |-> pdmpmt_generate_sample_counts(total, workers)]
  /\ Idle

CallMcpiGather ==
  /\ orch \in DirectCalls
  /\ pc = "start"
  /\ call = NoCall
  /\ \E cc \in Blocks, sc \in Blocks :
       /\ Len(cc) = Len(sc)
       /\ call' = [fn |-> "mcpi_gather", circle_counts |-> cc, sample_counts |-> sc,
                   ret |-> mcpi_gather(cc, sc)]
  /\ Idle

CallPdmpmtMcpiGather ==
  /\ orch \in DirectCalls
  /\ pc = "start"
  /\ call = NoCall
  /\ \E cc \in Blocks, sc \in Blocks :
       /\ Len(cc) = Len(sc)
       /\ call' = [fn |-> "pdmpmt_mcpi_gather", circle_counts |-> cc,
                   sample_counts |-> sc, ret |-> pdmpmt_mcpi_gather(cc, sc)]
  /\ Idle

CallUnitCircleSamples ==
  /\ orch \in DirectCalls
  /\ pc = "start"
  /\ call = NoCall
  /\ \E n \in 0..MaxDraws, rng \in CallerRngs :
       call' = [fn |-> "unit_circle_samples", n |-> n, rng |-> rng,
                ret |-> unit_circle_samples(n, rng),
                rng_after |-> PassByValue(rng, RngAdvance(rng, 2 * n * DrawsPerDouble(rng.type)))]
  /\ Idle

CallPdmpmtRngUnitCircleSamples ==
  /\ orch \in DirectCalls
  /\ pc = "start"
  /\ call = NoCall
  /\ \E n \in 1..MaxDraws, t \in PrandRngs, s \in SeedInputs :
       call' = [fn |-> "pdmpmt_rng_unit_circle_samples", n |-> n, type |-> t,
                seed |-> s, ret |-> pdmpmt_rng_unit_circle_samples(n, t, s)]
  /\ Idle

CallGenerateSeeds ==
  /\ orch \in DirectCalls
  /\ pc = "start"
  /\ call = NoCall
  /\ \E n \in 1..MaxWorkers, rng \in CallerRngs :
       call' = [fn |-> "generate_seeds", n |-> n, rng |-> rng,
                ret |-> generate_seeds(n, rng),
                rng_after |-> PassByValue(rng, RngAdvance(rng, n))]
  /\ Idle

CallPdmpmtRngGenerateSeeds ==
  /\ orch \in DirectCalls
  /\ pc = "start"
  /\ call = NoCall
  /\ \E n \in 1..MaxWorkers, t \in PrandRngs, s \in SeedInputs :
       call' = [fn |-> "pdmpmt_rng_generate_seeds", n |-> n, type |-> t,
                seed |-> s, ret |-> pdmpmt_rng_generate_seeds(n, t, s)]
  /\ Idle

\* ------------------------- direct calls on any arguments, in either build
\* detail::generate_sample_counts called with any counts, zero included
InvokeGenerateSampleCounts ==
  /\ orch \in DirectCalls
  /\ pc = "start"
  /\ call = NoCall
  /\ \E total \in 0..MaxTotal, workers \in 0..MaxWorkers :
       call' = [fn |-> "generate_sample_counts_call", total |-> total,
                workers |-> workers,
                out |-> generate_sample_counts_call(total, workers)]
  /\ Idle

\* pdmpmt_generate_sample_counts called with any counts, zero included, in a
\* build with or without assertions, its allocation succeeding or not
InvokePdmpmtGenerateSampleCounts ==
  /\ orch \in DirectCalls
  /\ pc = "start"
  /\ call = NoCall
  /\ \E total \in 0..MaxTotal, workers \in 0..MaxWorkers :
       \E blk \in AllocOutcomes(workers) :
         call' = [fn |-> "pdmpmt_generate_sample_counts_call", total |-> total,
                  workers |-> workers, nd |-> ndebug, blk |-> blk,
                  out |-> pdmpmt_generate_sample_counts_call(total, workers, ndebug, blk)]
  /\ Idle

\* detail::generate_seeds called with any count, zero included: the vector
\* of n_seeds elements is empty and the loop over it does nothing
InvokeGenerateSeeds ==
  /\ orch \in DirectCalls
  /\ pc = "start"
  /\ call = NoCall
  /\ \E n \in 0..MaxWorkers, rng \in CallerRngs :
       call' = [fn |-> "generate_seeds_call", n |-> n, rng |-> rng,
                out |-> Returned(generate_seeds(n, rng))]
  /\ Idle

\* pdmpmt_rng_generate_seeds called with any count, zero included, in a build
\* with or without assertions, its allocation succeeding or not
InvokePdmpmtRngGenerateSeeds ==
  /\ orch \in DirectCalls
  /\ pc = "start"
  /\ call = NoCall
  /\ \E n \in 0..MaxWorkers, t \in PrandRngs, s \in SeedInputs :
       \E blk \in AllocOutcomes(n), init_ok \in BOOLEAN :
         call' = [fn |-> "pdmpmt_rng_generate_seeds_call", n |-> n, type |-> t,
                  seed |-> s, nd |-> ndebug, blk |-> blk, init_ok |-> init_ok,
                  out |-> pdmpmt_rng_generate_seeds_call(n, t, s, ndebug, blk, init_ok)]
  /\ Idle

\* sequences of counts a caller may hand to gather, the empty one included
GatherArgs == UNION {[1..n -> {1, 2}] : n \in 0..MaxBlock}

\* the blocks that hold a sequence of counts: an empty block is what
\* pdmpmt_block_ulong_alloc(0) returns
BlocksOf(q) ==
  IF q = <<>> THEN {NullBlock(g) : g \in IndeterminateSizes} ELSE {Block(q, Len(q))}

\* detail::mcpi_gather of mcpi.hh called with any two sequences
InvokeMcpiGather ==
  /\ orch \in DirectCalls
  /\ pc = "start"
  /\ call = NoCall
  /\ \E cc \in GatherArgs, sc \in GatherArgs :
       call' = [fn |-> "mcpi_gather_call", circle_counts |-> cc, sample_counts |-> sc,
                nd |-> ndebug, out |-> mcpi_gather_call(cc, sc, ndebug)]
  /\ Idle

\* detail::mcpi_gather of cpp/mcpi.h called with any two sequences
InvokeCppMcpiGather ==
  /\ orch \in DirectCalls
  /\ pc = "start"
  /\ call = NoCall
  /\ \E cc \in GatherArgs, sc \in GatherArgs :
       call' = [fn |-> "cpp_mcpi_gather_call", circle_counts |-> cc,
                sample_counts |-> sc, nd |-> ndebug,
                out |-> cpp_mcpi_gather_call(cc, sc, ndebug)]
  /\ Idle

\* pdmpmt_mcpi_gather called with any two blocks
InvokePdmpmtMcpiGather ==
  /\ orch \in DirectCalls
  /\ pc = "start"
  /\ call = NoCall
  /\ \E cc \in GatherArgs, sc \in GatherArgs :
       \E cb \in BlocksOf(cc), sb \in BlocksOf(sc) :
         call' = [fn |-> "pdmpmt_mcpi_gather_call", circle_counts |-> cc,
                  sample_counts |-> sc, nd |-> ndebug, blocks |-> <<cb, sb>>,
                  out |-> pdmpmt_mcpi_gather_call(cb, sb, ndebug)]
  /\ Idle

\* pdmpmt_rng_unit_circle_samples called with any count, zero included
InvokePdmpmtRngUnitCircleSamples ==
  /\ orch \in DirectCalls
  /\ pc = "start"
  /\ call = NoCall
  /\ \E n \in 0..MaxDraws, t \in PrandRngs, s \in SeedInputs, init_ok \in BOOLEAN :
       call' = [fn |-> "pdmpmt_rng_unit_circle_samples_call", n |-> n, type |-> t,
                seed |-> s, nd |-> ndebug, init_ok |-> init_ok,
                out |-> pdmpmt_rng_unit_circle_samples_call(n, t, s, ndebug, init_ok)]
  /\ Idle

\* sample counts around the multiples of job_elements_default
DefaultJobsInputs ==
  {1, 2} \cup {m * job_elements_default + d : m \in 1..MaxDefaultJobs, d \in {-1, 0, 1}}

\* mcpi_async(n_samples, seed) of cpp/mcpi.h, up to the Partition of the
\* mcpi_async(n_samples, seed, n_jobs) it calls
InvokeMcpiAsyncDefaultJobs ==
  /\ orch \in DirectCalls
  /\ pc = "start"
  /\ call = NoCall
  /\ \E n \in DefaultJobsInputs :
       call' = [fn |-> "cpp_mcpi_async_default_jobs", n_samples |-> n,
                n_jobs |-> DefaultJobs(n),
                out |-> cpp_generate_sample_counts_call(n, DefaultJobs(n))]
  /\ Idle

\* sample totals at the upper end of size_t
LargeTotals == {UlongMod - d : d \in 1..MaxTotal}

\* the Partition of a large total and the sum gather forms of it: n_total of
\* mcpi_gather (std::reduce) and of pdmpmt_mcpi_gather (n_total += ...)
InvokeSplitAndSum ==
  /\ orch \in DirectCalls
  /\ pc = "start"
  /\ call = NoCall
  /\ \E total \in LargeTotals, workers \in 1..MaxWorkers,
        fn \in {"generate_sample_counts", "pdmpmt_generate_sample_counts"} :
       LET counts == IF fn = "generate_sample_counts"
                     THEN generate_sample_counts(total, workers)
                     ELSE pdmpmt_generate_sample_counts(total, workers)
       IN call' = [fn |-> "split_and_sum", splitter |-> fn, total |-> total,
                   workers |-> workers, counts |-> counts,
                   n_total |-> Reduce(counts, 0)]
  /\ Idle

\* the allocation functions of the two block.c files
BlockAllocators ==
  {"pdmpmt_block_ulong_alloc", "pdmpmt_block_ulong_calloc",
   "pdmpmt_block_ulong_alloc_003", "pdmpmt_block_ulong_calloc_003"}

Allocate(fn, size, malloc_ok, garbage) ==
  CASE fn = "pdmpmt_block_ulong_alloc" ->
         pdmpmt_block_ulong_alloc(size, malloc_ok, garbage)
    [] fn = "pdmpmt_block_ulong_calloc" ->
         pdmpmt_block_ulong_calloc(size, malloc_ok, garbage)
    [] fn = "pdmpmt_block_ulong_alloc_003" ->
         pdmpmt_block_ulong_alloc_003(size, malloc_ok, garbage)
    [] fn = "pdmpmt_block_ulong_calloc_003" ->
         pdmpmt_block_ulong_calloc_003(size, malloc_ok, garbage)

\* an allocation function called with any size; malloc or calloc succeeds or
\* not, and a member that is not assigned reads as any value
InvokeBlockAlloc ==
  /\ orch \in DirectCalls
  /\ pc = "start"
  /\ call = NoCall
  /\ \E fn \in BlockAllocators, size \in 0..MaxBlock, ok \in BOOLEAN,
        g \in IndeterminateSizes :
       call' = [fn |-> fn, size |-> size, malloc_ok |-> ok,
                out |-> Allocate(fn, size, ok, g)]
  /\ Idle

\* ------------------------------------------------- one block variable
\* everything but the block variable
NoRun == UNCHANGED <<call, dev, args, caller_rng, pc, k, seeds, sample_counts, worker,
                     gens, futures, circle_counts, pi_hat, run, prev, hist>>

\* block_ = pdmpmt_block_ulong_alloc(size) or pdmpmt_block_ulong_calloc(size)
BlockAssign ==
  /\ orch \in BlockOrchs
  /\ mem.ops < MaxOps
  /\ \E fn \in BlockAllocators, size \in 0..MaxBlock, ok \in BOOLEAN,
        g \in IndeterminateSizes :
       mem' = [var |-> AssignBlock(mem.var, Allocate(fn, size, ok, g)),
               last |-> "alloc", ops |-> mem.ops + 1]
  /\ NoRun

\* pdmpmt_block_ulong_free(&block_)
BlockFree ==
  /\ orch \in BlockOrchs
  /\ mem.ops < MaxOps
  /\ mem' = [var |-> pdmpmt_block_ulong_free(mem.var), last |-> "free",
             ops |-> mem.ops + 1]
  /\ NoRun

Next ==
  \/ GenerateSeeds
  \/ GenerateSampleCounts
  \/ Launch
  \/ LaunchDone
  \/ OmpFork
  \/ \E j \in Jobs : OmpStartIter(j)
  \/ \E j \in Jobs : WorkerStep(j)
  \/ \E j \in Jobs : WorkerReturn(j)
  \/ Collect
  \/ OmpJoin
  \/ Gather
  \/ SerialCall
  \/ SerialReturn
  \/ CallAgain
  \/ CurandGenerate
  \/ \E ti \in KernelThreads(MaxJobs) : KernelThread(ti)
  \/ KernelSync
  \/ CurandReduce
  \/ CallGenerateSampleCounts
  \/ CallPdmpmtGenerateSampleCounts
  \/ CallMcpiGather
  \/ CallPdmpmtMcpiGather
  \/ CallUnitCircleSamples
  \/ CallPdmpmtRngUnitCircleSamples
  \/ CallGenerateSeeds
  \/ CallPdmpmtRngGenerateSeeds
  \/ InvokeGenerateSampleCounts
  \/ InvokePdmpmtGenerateSampleCounts
  \/ InvokeGenerateSeeds
  \/ InvokePdmpmtRngGenerateSeeds
  \/ InvokePdmpmtRngUnitCircleSamples
  \/ InvokeBlockAlloc
  \/ InvokeMcpiGather
  \/ InvokeCppMcpiGather
  \/ InvokePdmpmtMcpiGather
  \/ InvokeMcpiAsyncDefaultJobs
  \/ InvokeSplitAndSum
  \/ BlockAssign
  \/ BlockFree

Spec == Init /\ [][Next]_vars

\* the steps of an estimation call: those of the calling thread and of the
\* samplers it started
EstimationStep ==
  \/ GenerateSeeds
  \/ GenerateSampleCounts
  \/ Launch
  \/ LaunchDone
  \/ OmpFork
  \/ \E j \in Jobs : OmpStartIter(j)
  \/ \E j \in Jobs : WorkerStep(j)
  \/ \E j \in Jobs : WorkerReturn(j)
  \/ Collect
  \/ OmpJoin
  \/ Gather

\* one call of a parallel entry point that takes its job count from the caller,
\* seeded as the tests seed it
FairInit ==
  /\ Init
  /\ orch \in {"mcpi_async", "mcpi_omp", "pdmpmt_rng_smcpi_ompm"}
  /\ seed = 8888 % UintMod

\* the threads are scheduled: while a thread of the call can take a step, one
\* of them does (std::async tasks and the OpenMP team are run by the system)
FairSpec == FairInit /\ [][EstimationStep]_vars /\ WF_vars(EstimationStep)

TypeOK ==
  /\ orch \in Orchs
  /\ pc \in {"start", "split", "launch", "collect", "fork", "parallel",
             "gather", "serial", "done", "aborted", "undefined", "kernel", "reduce",
             "exited", "terminated"}
  /\ k \in 0..MaxJobs
  /\ run \in 1..MaxRuns

\* ------------------------------------------------------------ properties
RECURSIVE SumSeq(_)
SumSeq(s) == IF s = <<>> THEN 0 ELSE Head(s) + SumSeq(Tail(s))

SplitterCalled == call.fn \in {"generate_sample_counts", "pdmpmt_generate_sample_counts"}
GatherCalled == call.fn \in {"mcpi_gather", "pdmpmt_mcpi_gather"}

\* C1: for every total >= 1 and workers >= 1 the Work Splitter (C++ and C)
\* returns exactly `workers` entries whose sum is `total`; the Partition an
\* entry point works with has n_jobs entries that sum to n_samples.
PartitionSum ==
  /\ SplitterCalled =>
       /\ Len(call.ret) = call.workers
       /\ SumSeq(call.ret) = call.total
  /\ (orch \in ParallelOrchs /\ sample_counts # <<>>) =>
       /\ Len(sample_counts) = n_jobs
       /\ SumSeq(sample_counts) = n_samples

PartitionSumWitness ==
  /\ call.fn = "pdmpmt_generate_sample_counts"
  /\ call.total = 7
  /\ call.workers = 3
  /\ call.ret = <<3, 2, 2>>

\* C2: with base = total div workers and r = total mod workers, the entries
\* at code indices 0..r-1 are base + 1 and those at r..workers-1 are base.
RemainderLeading ==
  SplitterCalled =>
    LET base == call.total \div call.workers
        r == call.total % call.workers
    IN /\ DOMAIN call.ret = 1..call.workers
       /\ \A i \in 1..call.workers :
            call.ret[i] = (IF i <= r THEN base + 1 ELSE base)

RemainderLeadingWitness ==
  /\ call.fn = "generate_sample_counts"
  /\ call.total = 8
  /\ call.workers = 5
  /\ call.ret = <<2, 2, 2, 1, 1>>

\* C3: gather returns 4 * (sum(inside_counts) / sum(sample_counts)) over the
\* sums of all entries; [7854, 7850] and [10000, 10000] give 3.1408.
GatherRatio ==
  GatherCalled =>
    LET inside == SumSeq(call.circle_counts)
        total == SumSeq(call.sample_counts)
    IN /\ total > 0 =>
            /\ Len(call.ret) = 2
            /\ total % call.ret[2] = 0
            /\ call.ret[1] * (total \div call.ret[2]) = 4 * inside
       /\ (call.circle_counts = <<7854, 7850>> /\ call.sample_counts = <<10000, 10000>>) =>
            call.ret[1] * 10000 = 31408 * call.ret[2]

GatherRatioWitness ==
  /\ call.fn = "pdmpmt_mcpi_gather"
  /\ call.circle_counts = <<7854, 7850>>
  /\ call.sample_counts = <<10000, 10000>>
  /\ call.ret = <<1963, 625>>

SamplerCalled == call.fn \in {"unit_circle_samples", "pdmpmt_rng_unit_circle_samples"}
SeedsCalled == call.fn \in {"generate_seeds", "pdmpmt_rng_generate_seeds"}

\* the count the sampler of job j returns for the pair (Partition[j], SeedSet[j])
JobResult(j) == SampleLoop(0, sample_counts[j], RngSeed(rng_type, seeds[j]), 0)

\* C4: in every parallel entry point the sampler is invoked exactly once per
\* job j, with the pair (Partition[j], SeedSet[j]), and its result is the one
\* gather finds at index j; no job is skipped, run twice or given another
\* job's count or seed.
JobPairing ==
  orch \in ParallelOrchs =>
    /\ \A j \in Jobs :
         /\ Len(hist.invoked[j]) <= 1
         /\ j > n_jobs => hist.invoked[j] = <<>>
         /\ hist.invoked[j] # <<>> =>
              hist.invoked[j][1] = <<sample_counts[j], seeds[j]>>
    /\ pc \in {"gather", "done"} =>
         \A j \in 1..n_jobs :
           /\ Len(hist.invoked[j]) = 1
           /\ circle_counts[j] = JobResult(j)

JobPairingWitness ==
  /\ orch = "ray_main"
  /\ pc = "done"
  /\ n_jobs = 3
  /\ n_samples = 4
  /\ seeds[1] # seeds[2]
  /\ \A j \in 1..3 : hist.invoked[j] = <<<<sample_counts[j], seeds[j]>>>>

\* C5: the Work Splitter and the Seed Generator are each called once, with
\* the same worker count, before any sampler starts; gather is called exactly
\* once, after every sampler has returned and its result has been collected,
\* and never reads a result slot that was not written.
CallOrder ==
  orch \in ParallelOrchs =>
    /\ Len(hist.gen_seeds) <= 1
    /\ Len(hist.gen_counts) <= 1
    /\ hist.gather <= 1
    /\ (\E j \in Jobs : hist.invoked[j] # <<>>) =>
         /\ hist.gen_seeds = <<n_jobs>>
         /\ hist.gen_counts = <<n_jobs>>
    /\ (pc = "gather" \/ hist.gather = 1) =>
         \A j \in 1..n_jobs : worker[j].st = "done" /\ Assigned(j)
    /\ ~hist.gather_read_unwritten
    /\ pc = "done" <=> hist.gather = 1

CallOrderWitness ==
  /\ orch = "mcpi_omp"
  /\ pc = "done"
  /\ n_jobs = 3
  /\ hist.gather = 1
  /\ hist.gen_seeds = <<3>>
  /\ hist.gen_counts = <<3>>

\* the estimate of the same samplers run one after another with the same
\* per-job seeds and counts
SequentialEstimate ==
  LET results == [j \in 1..n_jobs |-> JobResult(j)]
  IN FourTimesRatio(SumSeq(results), SumSeq(sample_counts))

\* C6: the estimate an entry point returns is the same in every interleaving
\* and completion order of the jobs, and equals the estimate of the samplers
\* run one after another with the same per-job seeds and counts.
ScheduleIndependence ==
  (orch \in ParallelOrchs /\ pc = "done") => pi_hat = SequentialEstimate

ScheduleIndependenceWitness ==
  /\ orch = "mcpi_async"
  /\ pc = "done"
  /\ n_jobs = 3
  /\ n_samples = 4
  /\ pi_hat # <<0, 1>>
  /\ pi_hat = SequentialEstimate

\* C7: in the sampling phase job j advances only its own generator and writes
\* only result slot j, no slot has two writers, and the Partition, the SeedSet
\* and the caller's generator are only read.
NoSharedState ==
  /\ [](orch \in ParallelOrchs =>
          /\ \A g \in Jobs : hist.users[g] \subseteq {g} /\ hist.writers[g] \subseteq {g}
          /\ \A i, j \in Jobs :
               (i # j /\ worker[i].st # "idle" /\ worker[j].st # "idle") =>
                 /\ worker[i].gen # worker[j].gen
                 /\ worker[i].slot # worker[j].slot)
  /\ [][(orch \in ParallelOrchs /\ pc \in {"launch", "collect", "parallel"}) =>
          /\ seeds' = seeds
          /\ sample_counts' = sample_counts
          /\ caller_rng' = caller_rng
          /\ \A j \in Jobs :
               worker'[j].i # worker[j].i =>
                 \A g \in Jobs \ {worker[j].gen} : gens'[g] = gens[g]]_vars

NoSharedStateWitness ==
  /\ orch = "pdmpmt_rng_smcpi_ompm"
  /\ pc = "parallel"
  /\ worker[1].st = "running" /\ worker[1].i = 1 /\ worker[1].n = 2
  /\ worker[2].st = "running" /\ worker[2].i = 1 /\ worker[2].n = 2
  /\ hist.users[1] = {1}
  /\ hist.users[2] = {2}

\* C8: for every n >= 0 and every seed or generator the sampler returns a
\* count c with 0 <= c <= n; every job's count of samples inside the circle
\* is at most that job's Partition entry.
SamplerBounded ==
  /\ SamplerCalled => (0 <= call.ret /\ call.ret <= call.n)
  /\ orch \in ParallelOrchs =>
       \A j \in Jobs :
         worker[j].st # "idle" =>
           /\ 0 <= worker[j].n_inside
           /\ worker[j].n_inside <= worker[j].i
           /\ worker[j].i <= sample_counts[j]
  /\ (orch \in ParallelOrchs /\ pc \in {"gather", "done"}) =>
       \A j \in 1..n_jobs : 0 <= circle_counts[j] /\ circle_counts[j] <= sample_counts[j]

SamplerBoundedWitness ==
  /\ orch = "mcpi_omp"
  /\ pc = "done"
  /\ n_jobs = 2
  /\ sample_counts = <<2, 2>>
  /\ circle_counts[1] = 2
  /\ worker[1].n_inside = 2

\* C9: generate_seeds returns exactly `count` values, the i-th being the i-th
\* successive output of one generator initialised with the seed; a second call
\* with identical arguments returns the identical sequence.
SeedsDeterministic ==
  /\ call.fn = "generate_seeds" =>
       /\ Len(call.ret) = call.n
       /\ \A i \in 1..call.n : call.ret[i] = RngValue(RngAdvance(call.rng, i))
  /\ call.fn = "pdmpmt_rng_generate_seeds" =>
       /\ Len(call.ret) = call.n
       /\ \A i \in 1..call.n :
            call.ret[i] = RngValue(RngAdvance(RngSeed(call.type, ToUnsigned(call.seed)), i))
  /\ (orch \in ParallelOrchs /\ seeds # <<>>) =>
       /\ Len(seeds) = n_jobs
       /\ run > 1 => seeds = prev.seeds

SeedsDeterministicWitness ==
  /\ orch = "mcpi_async"
  /\ run = 2
  /\ n_jobs = 3
  /\ Len(seeds) = 3
  /\ seeds = prev.seeds
  /\ seeds[1] # seeds[2]

\* C10: a caller-owned generator passed to unit_circle_samples, generate_seeds,
\* mcpi, mcpi_async or mcpi_omp has the same state after the call as before,
\* and a second call with the same generator object and arguments returns the
\* same estimate.
CallerRngUnchanged ==
  /\ caller_rng = CallerRngOf(orch, rng_type, seed)
  /\ call.fn \in {"unit_circle_samples", "generate_seeds"} => call.rng_after = call.rng
  /\ (run > 1 /\ pc = "done") => pi_hat = prev.pi_hat

CallerRngUnchangedWitness ==
  /\ orch = "mcpi"
  /\ run = 2
  /\ pc = "done"
  /\ n_samples = 4
  /\ pi_hat = prev.pi_hat
  /\ pi_hat # <<0, 1>>
  /\ caller_rng = RngSeed(rng_type, seed)

\* the points a sampler draws: n pairs of coordinates from the generator
RECURSIVE DrawPoints(_, _)
DrawPoints(rng, n) ==
  IF n = 0 THEN <<>>
  ELSE LET dx == UDist(rng)
           dy == UDist(dx.rng)
       IN <<(<<dx.x, dy.x>>)>> \o DrawPoints(dy.rng, n - 1)

\* the number of points of a sequence with x * x + y * y <= r * r
CountWithin(pts, r) ==
  Cardinality({i \in 1..Len(pts) : pts[i][1] * pts[i][1] + pts[i][2] * pts[i][2] <= r * r})

\* the number of points of a sequence of device samples whose float sum
\* x * x + y * y, as the build rounds it, is at most 1
CountRoundedWithin(pts) ==
  Cardinality({i \in 1..Len(pts) :
                 RoundedSumCompare(pts[i][1], pts[i][2], fp_contract) \in {-1, 0}})

\* the generator a directly called sampler draws from
CalledRng ==
  IF call.fn = "unit_circle_samples" THEN call.rng
  ELSE RngSeed(call.type, ToUnsigned(call.seed))

\* the samples thread ti of the kernel works on, as points
ThreadPoints(ti) ==
  LET ns == Len(dev.xs)
      first == (ns \div n_jobs) * ti
      count == IF ti = n_jobs - 1 THEN ns - first ELSE ns \div n_jobs
  IN [i \in 1..count |-> <<dev.xs[first + i], dev.ys[first + i]>>]

\* C11: every sampler counts a drawn point exactly when x * x + y * y <= 1,
\* points on the circle included: the C++ and the C sampler return the number
\* of their n points within the closed unit disc, and each thread of the
\* cuRAND kernel stores the number of its points whose sum, in the float
\* arithmetic of the build, is below 1 or exactly 1.
InsideNonStrict ==
  /\ SamplerCalled =>
       call.ret = CountWithin(DrawPoints(CalledRng, call.n), GridRadius)
  /\ orch \in GpuOrchs =>
       \A ti \in dev.done :
         dev.cts[ti + 1] = CountRoundedWithin(ThreadPoints(ti))

InsideNonStrictWitness ==
  /\ call.fn = "unit_circle_samples"
  /\ call.n = 1
  /\ LET pt == DrawPoints(call.rng, 1)[1]
     IN pt[1] * pt[1] + pt[2] * pt[2] = GridRadius * GridRadius
  /\ call.ret = 1

\* the largest and the smallest entry of a non-empty sequence
SeqMax(q) == CHOOSE m \in {q[i] : i \in 1..Len(q)} : \A i \in 1..Len(q) : q[i] <= m
SeqMin(q) == CHOOSE m \in {q[i] : i \in 1..Len(q)} : \A i \in 1..Len(q) : q[i] >= m

\* C12: for total >= 1 and workers >= 1 the entries of the Partition differ
\* by at most one: max(partition) - min(partition) <= 1, for both splitters
\* and for the Partition every entry point works with.
PartitionBalanced ==
  /\ SplitterCalled => SeqMax(call.ret) - SeqMin(call.ret) <= 1
  /\ (orch \in ParallelOrchs /\ sample_counts # <<>>) =>
       SeqMax(sample_counts) - SeqMin(sample_counts) <= 1

PartitionBalancedWitness ==
  /\ call.fn = "pdmpmt_generate_sample_counts"
  /\ call.total = 9
  /\ call.workers = 4
  /\ SeqMax(call.ret) = 3
  /\ SeqMin(call.ret) = 2

SplitterInvoked ==
  call.fn \in {"generate_sample_counts_call", "pdmpmt_generate_sample_counts_call"}

\* C13: generate_sample_counts(total, workers) with total = 0 or workers = 0
\* fails (the failure of the code being a failed assertion) and returns no
\* Partition: it neither divides by the zero worker count nor returns.
SplitterRejectsZero ==
  (SplitterInvoked /\ (call.total = 0 \/ call.workers = 0)) =>
    call.out.st = "assert"

SeedsInvoked == call.fn \in {"generate_seeds_call", "pdmpmt_rng_generate_seeds_call"}

\* C14: generate_seeds(count, seed) with count = 0 fails (the failure of the
\* code being a failed assertion); it never returns an empty SeedSet.
SeedsRejectZero ==
  (SeedsInvoked /\ call.n = 0) => call.out.st = "assert"

GatherInvoked ==
  call.fn \in {"mcpi_gather_call", "cpp_mcpi_gather_call", "pdmpmt_mcpi_gather_call"}

\* C15: gather called with sequences of different length, or with an empty
\* sequence, fails (the failure of the code being a failed assertion) and
\* returns no estimate; it neither divides by a zero total nor reads past the
\* shorter sequence.
GatherRejectsMismatch ==
  (GatherInvoked /\ (Len(call.circle_counts) # Len(call.sample_counts)
                      \/ Len(call.circle_counts) = 0
                      \/ Len(call.sample_counts) = 0)) =>
    call.out.st = "assert"

\* the entry points that estimate pi from a sample count given by the caller
EstimationEntryPoints ==
  {"mcpi", "mcpi_async", "mcpi_omp", "pdmpmt_rng_smcpi", "pdmpmt_rng_smcpi_ompm"}

\* the caller passed a zero count: no samples, or no jobs where 0 does not
\* stand for an automatic choice
ZeroCountPassed == n_samples = 0 \/ (orch = "mcpi_async" /\ jobs_arg = 0)

\* C16: an estimation entry point called with n_samples = 0 or n_jobs = 0
\* fails before any sampler invocation is made, and never completes as a
\* zero-sample run that returns a value.
EntryRejectsZero ==
  (orch \in EstimationEntryPoints /\ ZeroCountPassed) =>
    /\ \A j \in Jobs : hist.invoked[j] = <<>>
    /\ pc # "done"

\* the caller gave a job count the entry point documents as allowed: a
\* positive one, or none (0) where that asks for an automatic choice
JobCountAllowed ==
  \/ jobs_arg >= 1
  \/ orch \in {"mcpi_omp", "pdmpmt_rng_smcpi_ompm", "mcpi_async_auto"}

\* C17: in every entry point, the automatic modes included, the worker count
\* handed to the Seed Generator and used as the divisor of the Work Splitter
\* is >= 1.
WorkerCountPositive ==
  (orch \in ParallelOrchs /\ JobCountAllowed) =>
    /\ \A i \in 1..Len(hist.gen_seeds) : hist.gen_seeds[i] >= 1
    /\ \A i \in 1..Len(hist.gen_counts) : hist.gen_counts[i] >= 1

\* C18: the sampler called with n = 0 is a valid call that returns 0, in the
\* C++ sampler and in the C sampler alike.
SamplerAcceptsZero ==
  /\ (call.fn = "unit_circle_samples" /\ call.n = 0) => call.ret = 0
  /\ (call.fn = "pdmpmt_rng_unit_circle_samples_call" /\ call.n = 0) =>
       call.out = Returned(0)

\* a C function was called with valid counts and its buffer was not allocated
AllocationFailed ==
  \/ /\ call.fn = "pdmpmt_generate_sample_counts_call"
     /\ call.total >= 1 /\ call.workers >= 1 /\ call.blk.null
  \/ /\ call.fn = "pdmpmt_rng_generate_seeds_call"
     /\ call.n >= 1 /\ call.blk.null

\* C19: when the buffer of a Partition, SeedSet or result block cannot be
\* allocated, the operation reports the failure to its caller (a failed
\* assertion, or a block whose data is NULL) before writing any element; no
\* function writes through a NULL data pointer.
AllocationFailureReported ==
  /\ AllocationFailed =>
       /\ call.out.st # "undefined"
       /\ call.out.st = "returned" => call.out.ret.null
  /\ orch = "pdmpmt_rng_smcpi_ompm" => hist.fault # "write through NULL"

\* C20: pdmpmt_block_ulong_alloc(size) and pdmpmt_block_ulong_calloc(size)
\* with size > 0 return, when the allocation succeeds, a block whose data is
\* not NULL and whose size member is the requested size (every element 0 for
\* calloc); on error, size = 0 included, the data of the block is NULL.
BlockAllocContract ==
  call.fn \in BlockAllocators =>
    /\ (call.size > 0 /\ call.malloc_ok) =>
         /\ ~call.out.null
         /\ call.out.size = call.size
         /\ Len(call.out.data) = call.size
         /\ call.fn \in {"pdmpmt_block_ulong_calloc", "pdmpmt_block_ulong_calloc_003"} =>
              \A i \in 1..call.size : call.out.data[i] = 0
    /\ (call.size = 0 \/ ~call.malloc_ok) => call.out.null

\* C21: pdmpmt_block_ulong_free sets the data pointer of the block to NULL;
\* called on a block whose data is NULL already (default-initialised, failed
\* allocation, already freed) it does nothing; so over any sequence of alloc
\* and free calls on one block variable no buffer is released more than once.
BlockFreedOnce ==
  /\ [](orch \in BlockOrchs =>
          /\ mem.last = "free" => mem.var.block.null
          /\ \A b \in 1..Len(mem.var.released) : mem.var.released[b] <= 1)
  /\ [][(mem'.last = "free" /\ mem'.ops = mem.ops + 1 /\ mem.var.block.null) =>
          mem'.var = mem.var]_vars

BlockFreedOnceWitness ==
  /\ orch \in BlockOrchs
  /\ mem.ops = 3
  /\ mem.last = "free"
  /\ mem.var.released = <<1>>
  /\ mem.var.block.null

\* C23: for every total >= 1 and workers >= 1, workers > total included, every
\* Partition entry an entry point hands to a worker is >= 1: the sampler is
\* never invoked with n = 0, and the assertion of the C sampler on its count
\* is never reached from pdmpmt_rng_smcpi_ompm.
PartitionEntriesPositive ==
  (orch \in ParallelOrchs /\ n_samples >= 1 /\ n_jobs >= 1) =>
    /\ \A j \in Jobs :
         \A c \in 1..Len(hist.invoked[j]) : hist.invoked[j][c][1] >= 1
    /\ hist.fault # "n_samples must be positive"

\* an allocation of the call gave a block with NULL data
OutOfMemory == hist.null_counts \/ hist.fault \in {"write through NULL",
                                                    "block memory must be allocated"}

\* prand_init reported an error when a generator of the call was created
GeneratorFailed == hist.fault \in {"RNG creation must not error",
                                   "read through the pointer of a failed prand_init"}

\* C24: for every total >= 1 and workers >= 1, a call of mcpi_async, mcpi_omp
\* or pdmpmt_rng_smcpi_ompm whose threads are scheduled fairly eventually
\* returns a PiEstimate (a call that ran out of memory or whose generator
\* could not be created aside).
EstimationTerminates ==
  (/\ orch \in {"mcpi_async", "mcpi_omp", "pdmpmt_rng_smcpi_ompm"}
   /\ n_samples >= 1
   /\ jobs_arg >= 1
   /\ pc = "start")
    ~> ((pc = "done" /\ pi_hat # NoEstimate) \/ OutOfMemory \/ GeneratorFailed)

\* C25: the value worker i's sampler generator is initialised with is exactly
\* SeedSet[i]: the sampler receives SeedSet[i] as its seed, its generator starts
\* from SeedSet[i] (no conversion or narrowing on the way changes the value),
\* and distinct SeedSet entries give distinct worker seeds.
SeedsNotNarrowed ==
  orch \in ParallelOrchs =>
    /\ \A j \in Jobs : worker[j].st # "idle" => worker[j].seed = seeds[j]
    /\ \A j \in Jobs :
         (worker[j].st = "running" /\ worker[j].i = 0 /\ RngValid(gens[worker[j].gen])) =>
           gens[worker[j].gen].state = seeds[j]
    /\ \A i, j \in Jobs :
         (worker[i].st # "idle" /\ worker[j].st # "idle" /\ seeds[i] # seeds[j]) =>
           worker[i].seed # worker[j].seed

\* the number of samples thread ti of the kernel went through
ThreadLoad(ti) == Cardinality(dev.read[ti + 1])

\* the Partition of a splitter call, or of an entry point, has the remainder
\* in its leading entries, one sample each
LeadingRemainder(counts, total, workers) ==
  \A i \in 1..workers :
    counts[i] = (total \div workers) + (IF i <= total % workers THEN 1 ELSE 0)

SplitsLeading ==
  /\ SplitterCalled => LeadingRemainder(call.ret, call.total, call.workers)
  /\ (orch \in ParallelOrchs /\ sample_counts # <<>>) =>
       LeadingRemainder(sample_counts, n_samples, n_jobs)

\* C26: every backend's work split, the per-thread work units of the cuRAND
\* kernel unit_circle_check included, assigns the remainder to the leading
\* workers one sample each, so that per-worker loads differ by at most 1.
RemainderLeadingEverywhere ==
  /\ SplitsLeading
  /\ orch \in GpuOrchs =>
       /\ \A ti \in dev.done :
            ThreadLoad(ti) = (n_samples \div n_jobs)
                               + (IF ti < n_samples % n_jobs THEN 1 ELSE 0)
       /\ \A ti, tj \in dev.done : ThreadLoad(ti) - ThreadLoad(tj) <= 1

\* C26, amended: the C++ and C Work Splitters assign the remainder to the
\* leading workers one sample each; the cuRAND kernel gives every thread
\* ns div nt samples and its last thread the whole remainder ns mod nt on top,
\* so the loads of its threads differ by ns mod nt, up to nt - 1.
RemainderLastInKernel ==
  /\ SplitsLeading
  /\ orch \in GpuOrchs =>
       /\ \A ti \in dev.done :
            ThreadLoad(ti) = (n_samples \div n_jobs)
                               + (IF ti = n_jobs - 1 THEN n_samples % n_jobs ELSE 0)
       /\ \A ti, tj \in dev.done :
            ThreadLoad(ti) - ThreadLoad(tj) <= n_samples % n_jobs

RemainderLastInKernelWitness ==
  /\ orch = "curand_main"
  /\ n_samples = 2
  /\ n_jobs = 3
  /\ dev.done = {0, 1, 2}
  /\ ThreadLoad(0) = 0
  /\ ThreadLoad(2) = 2

\* C27: in cpp/mcpi.h, mcpi_async called without a job count uses
\* n_jobs = ceil(n_samples / 50,000,000), and for every n_samples >= 1 no entry
\* of the resulting Partition exceeds job_elements_default.
DefaultJobsCap ==
  call.fn = "cpp_mcpi_async_default_jobs" =>
    /\ call.n_jobs * 50000000 >= call.n_samples
    /\ (call.n_jobs - 1) * 50000000 < call.n_samples
    /\ call.out.st = "returned"
    /\ Len(call.out.ret) = call.n_jobs
    /\ SumSeq(call.out.ret) = call.n_samples
    /\ \A i \in 1..Len(call.out.ret) : call.out.ret[i] <= 50000000

DefaultJobsCapWitness ==
  /\ call.fn = "cpp_mcpi_async_default_jobs"
  /\ call.n_samples = 100000001
  /\ call.n_jobs = 3
  /\ call.out = Returned(<<33333334, 33333334, 33333333>>)

\* all samples of the device buffers, as points
DevicePoints == [i \in 1..Len(dev.xs) |-> <<dev.xs[i], dev.ys[i]>>]

\* C28: in the kernel unit_circle_check launched with nt = cts.size() >= 1
\* threads over ns samples, the index ranges [offset, offset + work_size) of
\* the threads are pairwise disjoint and their union is [0, ns): no thread
\* reads outside the sample buffers, every sample is tested by exactly one
\* thread, and the reduction of cts is the number of all samples with
\* x * x + y * y <= 1 in the float arithmetic of the build.
KernelCoversSamples ==
  orch \in GpuOrchs =>
    /\ \A ti \in dev.done : dev.read[ti + 1] \subseteq 0..(n_samples - 1)
    /\ \A ti, tj \in dev.done : ti # tj => dev.read[ti + 1] \cap dev.read[tj + 1] = {}
    /\ pc \in {"reduce", "done"} =>
         UNION {dev.read[t] : t \in 1..n_jobs} = 0..(n_samples - 1)
    /\ pc = "done" =>
         /\ ReduceUnsigned(dev.cts, 0) = CountRoundedWithin(DevicePoints)
         /\ pi_hat = FourTimesRatio(CountRoundedWithin(DevicePoints), n_samples)

KernelCoversSamplesWitness ==
  /\ orch = "curand_main"
  /\ pc = "done"
  /\ n_samples = 4
  /\ n_jobs = 3
  /\ dev.read = <<{0}, {1}, {2, 3}>>
  /\ CountRoundedWithin(DevicePoints) \in 1..3
  /\ dev.cts[3] >= 1

\* C29: a parallel run with one worker is the serial estimator run on the
\* derived seed: mcpi_async(n, rng, 1) = mcpi(n, Rng{s0}) with
\* s0 = generate_seeds(1, rng)[0], pdmpmt_rng_smcpi_ompm(n, type, 1, seed) =
\* pdmpmt_rng_smcpi(n, type, s0) likewise, and the serial formula gives what
\* gather gives on the single pair (inside, n).
OneWorkerIsSerial ==
  /\ (orch = "mcpi_async" /\ n_jobs = 1 /\ n_samples >= 1 /\ pc = "done") =>
       /\ pi_hat = mcpi(n_samples, RngSeed(rng_type, generate_seeds(1, caller_rng)[1]))
       /\ pi_hat = mcpi_gather(circle_counts, <<n_samples>>)
  /\ (orch = "pdmpmt_rng_smcpi_ompm" /\ n_jobs = 1 /\ n_samples >= 1 /\ pc = "done") =>
       /\ pi_hat = pdmpmt_rng_smcpi(n_samples, rng_type,
                                    pdmpmt_rng_generate_seeds(1, rng_type, seed)[1])
       /\ pi_hat = pdmpmt_mcpi_gather(circle_counts, <<n_samples>>)
  /\ (orch = "mcpi" /\ n_samples >= 1 /\ pc = "done") =>
       pi_hat = mcpi(n_samples, caller_rng)
  /\ (orch = "pdmpmt_rng_smcpi" /\ n_samples >= 1 /\ pc = "done") =>
       pi_hat = pdmpmt_rng_smcpi(n_samples, rng_type, seed)

OneWorkerIsSerialWitness ==
  /\ orch = "pdmpmt_rng_smcpi_ompm"
  /\ n_jobs = 1
  /\ n_samples = 4
  /\ pc = "done"
  /\ pi_hat = pdmpmt_rng_smcpi(4, rng_type, seeds[1])
  /\ pi_hat \notin {<<0, 1>>, <<4, 1>>}

\* C30: for every estimation run with total >= 1 and workers >= 1 the values
\* passed to gather satisfy sum(inside_counts) <= sum(sample_counts) = total,
\* the sums gather forms do not wrap around, and the PiEstimate returned lies
\* in the closed interval [0, 4].
EstimateInRange ==
  /\ (orch \in ParallelOrchs /\ n_samples >= 1 /\ n_jobs >= 1 /\ pc = "done") =>
       /\ SumSeq(circle_counts) <= SumSeq(sample_counts)
       /\ SumSeq(sample_counts) = n_samples
       /\ Reduce(sample_counts, 0) = SumSeq(sample_counts)
       /\ Reduce(circle_counts, 0) = SumSeq(circle_counts)
       /\ Len(pi_hat) = 2
       /\ 0 <= pi_hat[1]
       /\ pi_hat[1] <= 4 * pi_hat[2]
  /\ call.fn = "split_and_sum" =>
       /\ SumSeq(call.counts) = call.total
       /\ call.n_total = call.total

EstimateInRangeWitness ==
  /\ orch = "mcpi_async"
  /\ pc = "done"
  /\ n_samples = 4
  /\ n_jobs = 3
  /\ SumSeq(circle_counts) \in 1..3
  /\ pi_hat = FourTimesRatio(SumSeq(circle_counts), 4)

====
